---- MODULE Spec2Model ----
(***************************************************************************)
(* The waitlist of chipotleman/waitingforlocks: the queue_entries table    *)
(* (shared/schema.ts), DatabaseStorage (server/storage.ts) and the join    *)
(* and boost routes (server/routes.ts).  A request is a process; every     *)
(* awaited database statement of its handler is one atomic step, so the    *)
(* handlers of concurrent requests interleave between statements.          *)
(***************************************************************************)
EXTENDS Integers, FiniteSets, Sequences, Bags, TLC

(* ------------------------------ bounds -------------------------------- *)

\* requests that may be in their handlers at the same time
MaxConcurrent == 3
\* distinct well-formed addresses a request may carry
NumEmails == 2
\* rows the modelled requests may insert over a behaviour
MaxJoins == 2
\* rows already in the table in the populated initial state
BaseFill == 16
\* last value of the clock
MaxTime == 1
\* drops that may be created over a behaviour
MaxDrops == 2
\* longest local part of an address given to maskEmail
MaxLocalLen == 4
\* calls of updateQueueEntryInstagram on one row over a behaviour
MaxBoosts == 4

(* ------------------------- program constants -------------------------- *)

\* initializeMockQueue: for (let i = 5; i <= 283; i++)
MockQueueSize == 283
\* initializeMockQueue: the four addresses of mockEmails
NamedMockRows == 4

\* "Start positions after the mock base of 283 people": 284 + count
FirstPosition == 284
\* getTotalQueueSize: result.count + 283
MockBase == 283
\* route: totalSize >= 300
QueueLimit == 300
\* updateQueueEntryInstagram: position - 100
BoostAmount == 100
\* Math.max(1, ...)
MinPosition == 1
\* estimatedWaitTime: Math.ceil(position / 10)
PeoplePerMinute == 10

MsgValidation == "Validation error"
MsgQueueFull == "Queue is full"
MsgDuplicate == "Email already exists in queue"
MsgJoinFailed == "Failed to join queue"
MsgBoostRequired == "Email and Instagram username are required"
MsgNotFound == "Email not found in queue"
MsgAlreadyBoosted == "Instagram boost already used for this email"
MsgUpdateFailed == "Failed to update Instagram information"
MsgJoined == "joined"
MsgBoosted == "success"
MsgDropNotFound == "Drop not found"
MsgDropDeleted == "Drop deleted successfully"
MsgOk == "ok"

\* stats: const mockBaseSize = 283
mockBaseSize == 283
\* stats: allEntries.slice(0, 15)
TopCount == 15
\* stats: if (minutesUntilDrop <= 60)
GrowthMinutes == 60
\* stats: 3600 - secondsUntilDrop
GrowthSeconds == 3600
\* stats: ... / 25
GrowthInterval == 25
\* stats: Math.min(293, ...)
GrowthCap == 293
\* stats: timeUntilDrop / 1000
MillisPerSecond == 1000
\* stats: timeUntilDrop / (1000 * 60)
MillisPerMinute == 1000 * 60
\* insertDropSchema: maxQueueSize default(300)
DefaultMaxQueueSize == 300
\* MemStorage.initializeMockDrop: maxQueueSize: 293
MockMaxQueueSize == 293
\* MemStorage.initializeMockDrop: Date.now() + 30 * 60 * 1000
MockDropLead == 30 * 60 * 1000

(* ------------------------------ inputs -------------------------------- *)

\* well-formed addresses
Emails == 1..NumEmails
\* a non-empty string that is no e-mail address
BadEmail == 0
\* a missing or empty email field
NoEmail == -1
\* SQL NULL / undefined
Null == "null"
\* the optional fields of a join request: phone and notifications
Profiles == {<<Null, FALSE>>, <<"555", TRUE>>}
Handles == {"h1", "h2"}
\* a missing or empty instagramUsername field
NoHandle == ""
\* identifiers and addresses of the rows of the populated initial state
FillBase == 100
\* identifiers and addresses of MemStorage's mock rows: "alex_***@gmail.com",
\* "user5_***@email.com", ... are no addresses the validation accepts
MockEmailBase == 1000
\* the instants (ms) the clock of the display arithmetic is read at: the
\* start, one and two growth intervals later, one hour later, and one hour
\* and one interval later
Instants == {0, GrowthInterval * MillisPerSecond,
             2 * GrowthInterval * MillisPerSecond,
             GrowthSeconds * MillisPerSecond,
             (GrowthSeconds + GrowthInterval) * MillisPerSecond}
\* the scheduled times (ms) a drop may be given
DropTimes == {GrowthSeconds * MillisPerSecond,
              (GrowthSeconds + GrowthInterval) * MillisPerSecond}
\* new Date(undefined): an invalid date
BadTime == -1
\* the name field of a drop request; the empty one fails min(1)
DropNames == {"drop", ""}
\* the identifier of the drop the MemStorage constructor creates
MockDropId == 0
\* the instagramPostUrl field of a settings request, when it has one
PostUrls == {"u1", "u2"}
\* the bodies of settings requests that pass insertSettingsSchema: the url
\* is optional, instagramBoostEnabled defaults to false
SettingsBodies ==
    {[instagramBoostEnabled |-> b] : b \in BOOLEAN}
        \cup {[instagramPostUrl |-> u, instagramBoostEnabled |-> b] :
                 u \in PostUrls, b \in BOOLEAN}

VARIABLES
    entries,   \* the queue_entries table: a set of rows
    nextId,    \* gen_random_uuid(): the next fresh identifier
    now,       \* the clock (defaultNow())
    reqs,      \* the requests being handled, a bag: position in the handler, locals
    out,       \* the response the latest step sent, NoResp when it sent none
    hist,      \* ghost, per stored row id: position at signup, boosts applied
    drops,     \* the drops table: a set of rows
    nextDropId,\* the next fresh identifier of a drop
    settings,  \* the settings table: a set of rows
    mockDrops, \* MemStorage.mockDrops: an array of drops
    arg,       \* the argument of the pure function under study
    memQueue,  \* MemStorage.queueEntries with its index emailToId: a set of rows
    memOut     \* what the latest call on MemStorage returned or threw

\* the state outside the queue_entries table and its handlers
admin == <<drops, nextDropId, settings, mockDrops, arg, memQueue, memOut>>

\* MemStorage's queue
mem == <<memQueue, memOut>>

vars == <<entries, nextId, now, reqs, out, hist, drops, nextDropId, settings,
          mockDrops, arg, memQueue, memOut>>

(* ------------------------------ helpers ------------------------------- *)

Max(a, b) == IF a >= b THEN a ELSE b

Min(a, b) == IF a <= b THEN a ELSE b

\* Math.ceil(a / b) for positive integers
CeilDiv(a, b) == (a + b - 1) \div b

\* no response; kind and email name the request a response answers
NoResp == [kind |-> "none", email |-> NoEmail, status |-> 0, message |-> "",
           id |-> 0, position |-> 0, waitTime |-> 0, skipped |-> 0,
           total |-> 0, list |-> <<>>, drop |-> {}, row |-> {}, text |-> <<>>]

\* res.status(status).json({ message })
Resp(kind, email, status, message) ==
    [NoResp EXCEPT !.kind = kind, !.email = email,
                   !.status = status, !.message = message]

\* a request as it arrives: the handler it runs and the email of its body
NewReq(kind, email) == [pc |-> "start", kind |-> kind, email |-> email,
                        existingPos |-> 0, count |-> 0, newPos |-> 0,
                        existingId |-> 0]

\* z.string().email(...) of insertQueueEntrySchema
ValidEmail(email) == email \in Emails

(* --------------------------- DatabaseStorage -------------------------- *)

\* mutant: the lookup without its where clause
getAnyQueueEntry(rows, email) == rows

\* select().from(queueEntries).where(eq(queueEntries.email, email))
getQueueEntryByEmail(rows, email) == {e \in rows : e.email = email}

\* mutant: the count ignores the rows
CountRowsNone(rows) == 0

\* select({ count: count() }).from(queueEntries)
CountRows(rows) == Cardinality(rows)

\* getQueuePosition: entry ? entry.position : null (no position for null)
getQueuePosition(rows, email) ==
    {e.position : e \in getQueueEntryByEmail(rows, email)}

\* getTotalQueueSize: result.count + 283
getTotalQueueSize(rows) == CountRows(rows) + MockBase

\* mutant: the lookup's hit is ignored
EmailTakenNever(existing) == FALSE

\* createQueueEntry: if (existing) throw new Error("Email already exists in queue")
EmailTaken(existing) == existing # {}

\* mutant: the position is the count plus one, without the mock base
NewEntryPositionNoBase(actualDbCount) == actualDbCount + 1

\* mutant: the position is counted from the mock base itself
NewEntryPositionOffByOne(actualDbCount) == MockBase + actualDbCount

\* createQueueEntry: const position = 284 + actualDbCount
NewEntryPosition(actualDbCount) == FirstPosition + actualDbCount

\* mutant: the email column without its unique constraint
NoUniqueConstraint(rows, email) == FALSE

\* the unique constraint on queue_entries.email
UniqueViolation(rows, email) == \E e \in rows : e.email = email

\* the row insert(queueEntries).values({...insertEntry, position}) produces
NewRow(id, email, phone, notifications, position, t) ==
    [id |-> id, email |-> email, phone |-> phone, position |-> position,
     notifications |-> notifications, instagramUsername |-> Null,
     instagramBoostUsed |-> FALSE, joinedAt |-> t]

\* mutant: the new position without its floor
BoostedPositionNoFloor(position) == position - BoostAmount

\* updateQueueEntryInstagram: Math.max(1, currentEntry.position - 100)
BoostedPosition(position) == Max(MinPosition, position - BoostAmount)

\* mutant: the update leaves the boost-used flag alone
UpdateInstagramKeepFlag(rows, email, instagramUsername, newPosition) ==
    {IF e.email = email
        THEN [e EXCEPT !.instagramUsername = instagramUsername,
                       !.position = newPosition]
        ELSE e : e \in rows}

\* mutant: the update without its where clause
UpdateInstagramAllRows(rows, email, instagramUsername, newPosition) ==
    {[e EXCEPT !.instagramUsername = instagramUsername,
               !.instagramBoostUsed = TRUE,
               !.position = newPosition] : e \in rows}

\* update(queueEntries).set({instagramUsername, instagramBoostUsed: true,
\* position: newPosition}).where(eq(queueEntries.email, email))
UpdateInstagram(rows, email, instagramUsername, newPosition) ==
    {IF e.email = email
        THEN [e EXCEPT !.instagramUsername = instagramUsername,
                       !.instagramBoostUsed = TRUE,
                       !.position = newPosition]
        ELSE e : e \in rows}

\* delete(queueEntries).where(eq(queueEntries.id, id))
DeleteRows(rows, id) == {e \in rows : e.id # id}

\* mutant: the greatest position comes first
MaxPositionOf(rows) ==
    CHOOSE p \in {e.position : e \in rows} : \A e \in rows : p >= e.position

\* the least position among rows
MinPositionOf(rows) ==
    CHOOSE p \in {e.position : e \in rows} : \A e \in rows : p <= e.position

\* select().from(queueEntries).orderBy(queueEntries.position): the listings
\* the statement may return; rows of equal position come in any order
RECURSIVE getAllQueueEntries(_)
getAllQueueEntries(rows) ==
    IF rows = {} THEN {<<>>}
    ELSE UNION {{<<e>> \o rest : rest \in getAllQueueEntries(rows \ {e})} :
                    e \in {f \in rows : f.position = MinPositionOf(rows)}}

\* the row insert(drops).values(drop) produces: isActive takes its default
NewDrop(id, name, dropTime, t) ==
    [id |-> id, name |-> name, dropTime |-> dropTime, isActive |-> TRUE,
     maxQueueSize |-> DefaultMaxQueueSize, createdAt |-> t]

\* the latest creation time among rows
MaxCreatedAt(rows) ==
    CHOOSE t \in {d.createdAt : d \in rows} : \A d \in rows : d.createdAt <= t

\* select().from(drops).orderBy(desc(drops.createdAt)): the listings the
\* statement may return; rows of equal creation time come in any order
RECURSIVE getAllDrops(_)
getAllDrops(rows) ==
    IF rows = {} THEN {<<>>}
    ELSE UNION {{<<d>> \o rest : rest \in getAllDrops(rows \ {d})} :
                    d \in {f \in rows : f.createdAt = MaxCreatedAt(rows)}}

\* where(eq(drops.isActive, true))
ActiveDrops(rows) == {d \in rows : d.isActive}

\* getActiveDrop: where isActive, orderBy(desc(createdAt)), limit(1); the
\* results the statement may return, each the set of no row or of one row
getActiveDrop(rows) ==
    {IF listing = <<>> THEN {} ELSE {Head(listing)} :
        listing \in getAllDrops(ActiveDrops(rows))}

\* { ...row, ...updates }: the fields of updates replace those of the row
Merge(row, updates) ==
    [f \in DOMAIN row |-> IF f \in DOMAIN updates THEN updates[f] ELSE row[f]]

\* mutant: the update without its where clause
UpdateDropRowsNoWhere(rows, id, updates) == {Merge(d, updates) : d \in rows}

\* update(drops).set(updates).where(eq(drops.id, id))
UpdateDropRows(rows, id, updates) ==
    {IF d.id = id THEN Merge(d, updates) ELSE d : d \in rows}

\* delete(drops).where(eq(drops.id, id))
DeleteDropRows(rows, id) == {d \in rows : d.id # id}

\* mutant: the select of the settings row finds nothing
getSettingsNever(rows) == {{}}

\* getSettings: select().from(settings).limit(1); the results the statement
\* may return, each the set of no row or of one row
getSettings(rows) == IF rows = {} THEN {{}} ELSE {{r} : r \in rows}

\* the row insert(settings).values(newSettings) produces
NewSettings(id, newSettings, t) ==
    [id |-> id,
     instagramPostUrl |-> IF "instagramPostUrl" \in DOMAIN newSettings
                          THEN newSettings.instagramPostUrl ELSE Null,
     instagramBoostEnabled |-> newSettings.instagramBoostEnabled,
     createdAt |-> t, updatedAt |-> t]

\* update(settings).set({...newSettings, updatedAt: new Date()})
\*     .where(eq(settings.id, existing.id))
UpdateSettingsRows(rows, id, newSettings, t) ==
    {IF r.id = id
        THEN [Merge(r, newSettings) EXCEPT !.updatedAt = t]
        ELSE r : r \in rows}

(* ----------------------------- MemStorage ---------------------------- *)

\* initializeMockDrop: the drop the constructor pushes at time t
MockDrop(t) ==
    [id |-> MockDropId, name |-> "LOCKS SOLD Exclusive Drop",
     dropTime |-> t + MockDropLead, isActive |-> TRUE,
     maxQueueSize |-> MockMaxQueueSize, createdAt |-> t]

\* the elements of an array
Elems(list) == {list[i] : i \in 1..Len(list)}

\* Array.prototype.find / findIndex: the first of the indexes that pass the
\* test, 0 for none
FirstIndex(hits) ==
    IF hits = {} THEN 0 ELSE CHOOSE i \in hits : \A j \in hits : i <= j

\* MemStorage.createDrop: mockDrops.push(newDrop), isActive: true
MemCreateDropRows(list, id, name, dropTime, t) ==
    Append(list, [id |-> id, name |-> name, dropTime |-> dropTime,
                  isActive |-> TRUE, maxQueueSize |-> DefaultMaxQueueSize,
                  createdAt |-> t])

\* MemStorage.getActiveDrop: mockDrops.find(drop => drop.isActive), as the
\* set of no drop or of one drop
MemGetActiveDrop(list) ==
    LET i == FirstIndex({j \in 1..Len(list) : list[j].isActive})
    IN IF i = 0 THEN {} ELSE {list[i]}

\* MemStorage.updateDrop: mockDrops[index] = {...mockDrops[index], ...updates}
MemUpdateDropRows(list, id, updates) ==
    LET i == FirstIndex({j \in 1..Len(list) : list[j].id = id})
    IN IF i = 0 THEN list ELSE [list EXCEPT ![i] = Merge(list[i], updates)]

\* MemStorage.deleteDrop: mockDrops.splice(index, 1)
MemDeleteDropRows(list, id) ==
    LET i == FirstIndex({j \in 1..Len(list) : list[j].id = id})
    IN IF i = 0 THEN list
       ELSE SubSeq(list, 1, i - 1) \o SubSeq(list, i + 1, Len(list))

\* initializeMockQueue: four named rows at index + 1, then rows 5..283
MockQueueEntry(i, t) ==
    [id |-> MockEmailBase + i, email |-> MockEmailBase + i, phone |-> Null,
     position |-> i, notifications |-> FALSE, instagramUsername |-> Null,
     instagramBoostUsed |-> FALSE,
     joinedAt |-> IF i <= NamedMockRows
                  THEN t - (120 - (i - 1) * 10) * MillisPerMinute
                  ELSE t - (120 - i) * MillisPerMinute]

initializeMockQueue(t) == {MockQueueEntry(i, t) : i \in 1..MockQueueSize}

\* MemStorage.getQueueEntryByEmail: emailToId.get, then queueEntries.get
MemGetQueueEntryByEmail(rows, email) == {e \in rows : e.email = email}

\* mutant: the position is the size of the map itself
MemNewPositionFromZero(rows) == Cardinality(rows)

\* MemStorage.createQueueEntry: const position = this.queueEntries.size + 1
MemNewPosition(rows) == Cardinality(rows) + 1

\* MemStorage.createQueueEntry: the entry it stores
MemNewRow(rows, id, email, phone, notifications, t) ==
    [id |-> id, email |-> email, phone |-> phone,
     notifications |-> notifications, position |-> MemNewPosition(rows),
     instagramUsername |-> Null, instagramBoostUsed |-> FALSE, joinedAt |-> t]

\* MemStorage.updateQueueEntryInstagram: { ...entry, instagramUsername,
\* instagramBoostUsed: true, position: Math.max(1, entry.position - 100) }
MemUpdateInstagram(rows, email, instagramUsername) ==
    {IF e.email = email
        THEN [e EXCEPT !.instagramUsername = instagramUsername,
                       !.instagramBoostUsed = TRUE,
                       !.position = Max(MinPosition, e.position - BoostAmount)]
        ELSE e : e \in rows}

\* MemStorage.getQueuePosition: entry ? entry.position : null
MemGetQueuePosition(rows, email) ==
    {e.position : e \in MemGetQueueEntryByEmail(rows, email)}

\* MemStorage.getTotalQueueSize: this.queueEntries.size
MemGetTotalQueueSize(rows) == Cardinality(rows)

(* ------------------------------- routes ------------------------------- *)

\* a text is a sequence of characters
Stars == <<"*", "*", "*">>
At == "@"
\* what a template literal prints for undefined
Undefined == <<"u", "n", "d", "e", "f", "i", "n", "e", "d">>

\* the decimal digits of a natural number
RECURSIVE Digits(_)
Digits(n) ==
    LET d == <<"0", "1", "2", "3", "4", "5", "6", "7", "8", "9">>
    IN IF n < 10 THEN <<d[n + 1]>> ELSE Digits(n \div 10) \o <<d[(n % 10) + 1]>>

\* the text of a well-formed address: u<number>@x.com
EmailText(email) ==
    <<"u">> \o Digits(email) \o <<At, "x", ".", "c", "o", "m">>

\* email.split('@'): the parts between the separators
RECURSIVE Split(_)
Split(text) ==
    LET hits == {i \in 1..Len(text) : text[i] = At}
    IN IF hits = {} THEN <<text>>
       ELSE LET i == CHOOSE h \in hits : \A g \in hits : h <= g
            IN <<SubSeq(text, 1, i - 1)>> \o Split(SubSeq(text, i + 1, Len(text)))

\* mutant: the short form only below three characters
maskEmailShortBelowThree(email) ==
    LET parts == Split(email)
        localPart == parts[1]
        domain == IF Len(parts) >= 2 THEN parts[2] ELSE Undefined
        first == IF localPart = <<>> THEN Undefined ELSE <<localPart[1]>>
    IN IF Len(localPart) < 3
       THEN first \o Stars \o <<At>> \o domain
       ELSE SubSeq(localPart, 1, 2) \o Stars \o <<At>> \o domain

\* maskEmail: const [localPart, domain] = email.split('@'); one character
\* of a local part of at most 3, else two, then ***@domain
maskEmail(email) ==
    LET parts == Split(email)
        localPart == parts[1]
        domain == IF Len(parts) >= 2 THEN parts[2] ELSE Undefined
        first == IF localPart = <<>> THEN Undefined ELSE <<localPart[1]>>
    IN IF Len(localPart) <= 3
       THEN first \o Stars \o <<At>> \o domain
       ELSE SubSeq(localPart, 1, 2) \o Stars \o <<At>> \o domain

\* the 15 mock entries of the stats route: masked name, host, minutes ago
MockNames ==
    << <<"a","l","e","x">>, <<"j","o","r","d","a","n">>, <<"s","a","m">>,
       <<"c","a","s","e","y">>, <<"t","a","y","l","o","r">>,
       <<"m","o","r","g","a","n">>, <<"r","i","l","e","y">>,
       <<"b","l","a","k","e">>, <<"j","a","m","i","e">>, <<"d","r","e","w">>,
       <<"a","v","e","r","y">>, <<"q","u","i","n","n">>, <<"s","a","g","e">>,
       <<"r","o","w","a","n">>, <<"p","h","o","e","n","i","x">> >>

\* the hosts of the 15 mock entries
MockHosts ==
    LET gmail == <<"g","m","a","i","l",".","c","o","m">>
        yahoo == <<"y","a","h","o","o",".","c","o","m">>
        hotmail == <<"h","o","t","m","a","i","l",".","c","o","m">>
        outlook == <<"o","u","t","l","o","o","k",".","c","o","m">>
        icloud == <<"i","c","l","o","u","d",".","c","o","m">>
    IN <<gmail, yahoo, hotmail, gmail, outlook, gmail, yahoo, icloud,
         gmail, hotmail, gmail, yahoo, outlook, gmail, icloud>>

MockMinutesAgo == <<120, 110, 100, 90, 85, 80, 75, 70, 65, 60, 55, 50, 45, 40, 35>>

\* const mockEntries = [{position, email, joinedAt: Date.now() - m * 60000}]
mockEntries(t) ==
    [i \in 1..Len(MockNames) |->
        [position |-> i,
         email |-> MockNames[i] \o Stars \o <<At>> \o MockHosts[i],
         joinedAt |-> t - MockMinutesAgo[i] * MillisPerMinute]]

\* entries.map(entry => ({position, email: maskEmail(entry.email), joinedAt}))
realEntries(listing) ==
    [i \in 1..Len(listing) |->
        [position |-> listing[i].position,
         email |-> maskEmail(EmailText(listing[i].email)),
         joinedAt |-> listing[i].joinedAt]]

\* mutant: the merged list is left in the order it was built
SortNot(list) == list

\* Array.prototype.sort((a, b) => a.position - b.position): a stable sort
RECURSIVE SortByPosition(_)
SortByPosition(list) ==
    IF list = <<>> THEN <<>>
    ELSE LET x == list[Len(list)]
             front == SortByPosition(SubSeq(list, 1, Len(list) - 1))
             k == Cardinality({i \in 1..Len(front) : front[i].position <= x.position})
         IN SubSeq(front, 1, k) \o <<x>> \o SubSeq(front, k + 1, Len(front))

\* [...mockEntries, ...realEntries].sort(...).slice(0, 15)
displayEntries(listing, t) ==
    LET allEntries == SortByPosition(mockEntries(t) \o realEntries(listing))
    IN SubSeq(allEntries, 1, Min(TopCount, Len(allEntries)))

\* activeDrop ? activeDrop.dropTime.getTime() - Date.now() : 0
timeUntilDrop(activeDrop, t) ==
    IF activeDrop = {} THEN 0 ELSE (CHOOSE d \in activeDrop : TRUE).dropTime - t

\* minutesUntilDrop <= 60, minutesUntilDrop = Math.max(0, timeUntilDrop / 60000)
WithinGrowth(untilDrop) == Max(0, untilDrop) <= GrowthMinutes * MillisPerMinute

\* Math.floor((3600 - secondsUntilDrop) / 25),
\* secondsUntilDrop = Math.max(0, timeUntilDrop / 1000)
additionalPeople(untilDrop) ==
    (GrowthSeconds * MillisPerSecond - Max(0, untilDrop))
        \div (GrowthInterval * MillisPerSecond)

\* Math.max(mockBaseSize, totalSize)
consistentTotal(totalSize) == Max(mockBaseSize, totalSize)

\* the totalSize of the stats response
simulatedTotal(totalSize, untilDrop) ==
    IF WithinGrowth(untilDrop)
    THEN Min(GrowthCap, consistentTotal(totalSize) + additionalPeople(untilDrop))
    ELSE consistentTotal(totalSize)

\* res.json({totalSize: simulatedTotal, topEntries: displayEntries, activeDrop})
StatsResp(totalSize, listing, activeDrop, t) ==
    [Resp("stats", NoEmail, 200, MsgOk)
        EXCEPT !.total = simulatedTotal(totalSize, timeUntilDrop(activeDrop, t)),
               !.list = displayEntries(listing, t),
               !.drop = activeDrop]

\* mutant: the capacity test lets one more in
QueueIsFullOffByOne(totalSize) == totalSize > QueueLimit

\* if (totalSize >= 300)
QueueIsFull(totalSize) == totalSize >= QueueLimit

\* mutant: the boost-used flag is not looked at
BoostNeverUsed(entry) == FALSE

\* if (existingEntry.instagramBoostUsed)
BoostAlreadyUsed(entry) == entry.instagramBoostUsed

\* res.json({id, position, email, estimatedWaitTime})
JoinedResp(entry) ==
    [Resp("join", entry.email, 200, MsgJoined)
        EXCEPT !.id = entry.id,
               !.position = entry.position,
               !.waitTime = CeilDiv(entry.position, PeoplePerMinute)]

\* res.json({success, newPosition, positionsSkipped})
BoostedResp(oldPosition, updatedEntry) ==
    [Resp("boost", updatedEntry.email, 200, MsgBoosted)
        EXCEPT !.position = updatedEntry.position,
               !.skipped = oldPosition - updatedEntry.position]

(* ---------------------------- initial state --------------------------- *)

\* the i-th row of a table filled by i joins made one after another
FillRow(i) == NewRow(FillBase + i, FillBase + i, Null, FALSE,
                     NewEntryPosition(i - 1), 0)

\* the table after n joins made one after another
Populated(n) == {FillRow(i) : i \in 1..n}

HistOf(rows) == [i \in {e.id : e \in rows} |->
                   [signup |-> (CHOOSE e \in rows : e.id = i).position,
                    boosts |-> 0]]

InitStores ==
    /\ \E n \in {0, BaseFill} : entries = Populated(n)
    /\ hist = HistOf(entries)
    /\ nextId = 1
    /\ now = 0
    /\ reqs = EmptyBag
    /\ out = NoResp
    /\ drops = {}
    /\ nextDropId = 1
    /\ settings = {}
    /\ mockDrops = <<MockDrop(now)>>
    /\ memOut = NoResp

\* the exported storage is the DatabaseStorage: no MemStorage queue is built
Init == InitStores /\ arg = <<>> /\ memQueue = {}

(* ------------------------------- actions ------------------------------ *)

InFlight(pcs) == {r \in BagToSet(reqs) : r.pc \in pcs}

InFlightJoins ==
    LET joins == InFlight({"j_lookup", "j_count", "j_insert"})
    IN BagCardinality([r \in joins |-> reqs[r]])

AllIdle == reqs = EmptyBag

\* a request arrives while fewer than MaxConcurrent are being handled
CanArrive == BagCardinality(reqs) < MaxConcurrent

\* res.status(...).json(...): the handler of request r returns
Reply(r, resp) ==
    /\ reqs' = reqs (-) SetToBag({r})
    /\ out' = resp

\* the handler of request r goes on to its next statement as r2
Goto(r, r2) ==
    /\ reqs' = (reqs (-) SetToBag({r})) (+) SetToBag({r2})
    /\ out' = NoResp

\* POST /api/queue/join up to its first database answer:
\* insertQueueEntrySchema.parse, then getTotalQueueSize and the capacity test
JoinStart(email) ==
    /\ CanArrive
    /\ LET r == NewReq("join", email)
       IN IF ~ValidEmail(email)
          THEN out' = Resp("join", email, 400, MsgValidation) /\ UNCHANGED reqs
          ELSE IF QueueIsFull(getTotalQueueSize(entries))
          THEN out' = Resp("join", email, 400, MsgQueueFull) /\ UNCHANGED reqs
          ELSE /\ nextId + InFlightJoins <= MaxJoins
               /\ reqs' = reqs (+) SetToBag({[r EXCEPT !.pc = "j_lookup"]})
               /\ out' = NoResp
    /\ UNCHANGED <<entries, nextId, now, hist>>
    /\ UNCHANGED admin

\* createQueueEntry: the lookup of the email and the throw on a hit
JoinLookup(r) ==
    /\ r.pc = "j_lookup"
    /\ IF EmailTaken(getQueueEntryByEmail(entries, r.email))
       THEN Reply(r, Resp(r.kind, r.email, 400, MsgDuplicate))
       ELSE Goto(r, [r EXCEPT !.pc = "j_count"])
    /\ UNCHANGED <<entries, nextId, now, hist>>
    /\ UNCHANGED admin

\* createQueueEntry: the count of the stored rows
JoinCount(r) ==
    /\ r.pc = "j_count"
    /\ Goto(r, [r EXCEPT !.pc = "j_insert", !.count = CountRows(entries)])
    /\ UNCHANGED <<entries, nextId, now, hist>>
    /\ UNCHANGED admin

\* createQueueEntry: the insert, and the route's response or catch
JoinInsert(r, phone, notifications) ==
    /\ r.pc = "j_insert"
    /\ LET row == NewRow(nextId, r.email, phone, notifications,
                         NewEntryPosition(r.count), now)
       IN IF UniqueViolation(entries, r.email)
          THEN /\ Reply(r, Resp(r.kind, r.email, 500, MsgJoinFailed))
               /\ UNCHANGED <<entries, nextId, hist>>
          ELSE /\ entries' = entries \cup {row}
               /\ nextId' = nextId + 1
               /\ hist' = [i \in DOMAIN hist \cup {row.id} |->
                             IF i = row.id
                             THEN [signup |-> row.position, boosts |-> 0]
                             ELSE hist[i]]
               /\ Reply(r, JoinedResp(row))
    /\ UNCHANGED now
    /\ UNCHANGED admin

\* POST /api/queue/instagram-verify up to its first database answer:
\* the required-field test, the lookup of the entry, the boost-used test
BoostStart(email, hasHandle) ==
    /\ CanArrive
    /\ LET r == NewReq("boost", email)
           found == getQueueEntryByEmail(entries, email)
       IN IF email = NoEmail \/ ~hasHandle
          THEN out' = Resp("boost", email, 400, MsgBoostRequired) /\ UNCHANGED reqs
          ELSE IF found = {}
          THEN out' = Resp("boost", email, 404, MsgNotFound) /\ UNCHANGED reqs
          ELSE LET existingEntry == CHOOSE e \in found : TRUE
               IN IF BoostAlreadyUsed(existingEntry)
                  THEN out' = Resp("boost", email, 400, MsgAlreadyBoosted) /\ UNCHANGED reqs
                  ELSE /\ reqs' = reqs (+) SetToBag({[r EXCEPT !.pc = "b_reread",
                                         !.existingPos = existingEntry.position]})
                       /\ out' = NoResp
    /\ UNCHANGED <<entries, nextId, now, hist>>
    /\ UNCHANGED admin

\* updateQueueEntryInstagram: the re-read of the entry and the new position
BoostReread(r) ==
    /\ r.pc = "b_reread"
    /\ LET found == getQueueEntryByEmail(entries, r.email)
       IN IF found = {}
          THEN Reply(r, Resp(r.kind, r.email, 500, MsgUpdateFailed))
          ELSE LET currentEntry == CHOOSE e \in found : TRUE
               IN Goto(r, [r EXCEPT !.pc = "b_update",
                              !.newPos = BoostedPosition(currentEntry.position)])
    /\ UNCHANGED <<entries, nextId, now, hist>>
    /\ UNCHANGED admin

\* updateQueueEntryInstagram: the update, and the route's response
BoostUpdate(r, instagramUsername) ==
    /\ r.pc = "b_update"
    /\ LET hit == getQueueEntryByEmail(entries, r.email)
           rows == UpdateInstagram(entries, r.email, instagramUsername, r.newPos)
       IN IF hit = {}
          THEN /\ Reply(r, Resp(r.kind, r.email, 500, MsgUpdateFailed))
               /\ UNCHANGED <<entries, hist>>
          ELSE /\ entries' = rows
               /\ hist' = [i \in DOMAIN hist |->
                             IF i \in {e.id : e \in hit}
                             THEN [hist[i] EXCEPT !.boosts = @ + 1]
                             ELSE hist[i]]
               /\ Reply(r, BoostedResp(r.existingPos,
                                CHOOSE e \in getQueueEntryByEmail(rows, r.email) : TRUE))
    /\ UNCHANGED <<nextId, now>>
    /\ UNCHANGED admin

\* deleteQueueEntry(id): one statement
DeleteQueueEntry(id) ==
    /\ entries' = DeleteRows(entries, id)
    /\ entries' # entries
    /\ hist' = [i \in DOMAIN hist \ {id} |-> hist[i]]
    /\ out' = NoResp
    /\ UNCHANGED <<nextId, now, reqs>>
    /\ UNCHANGED admin

\* the queue_entries table and the requests on it
queue == <<entries, nextId, reqs, hist>>

\* res.json(drop)
DropResp(kind, row) == [Resp(kind, NoEmail, 200, MsgOk) EXCEPT !.drop = {row}]

\* POST /api/admin/drops: insertDropSchema.parse, createDrop
CreateDrop(name, dropTime) ==
    /\ IF name = "" \/ dropTime = BadTime
       THEN /\ out' = Resp("createDrop", NoEmail, 400, MsgValidation)
            /\ UNCHANGED <<drops, nextDropId>>
       ELSE LET row == NewDrop(nextDropId, name, dropTime, now)
            IN /\ nextDropId <= MaxDrops
               /\ drops' = drops \cup {row}
               /\ nextDropId' = nextDropId + 1
               /\ out' = DropResp("createDrop", row)
    /\ UNCHANGED <<queue, now, settings, mockDrops, arg, mem>>

\* PUT /api/admin/drops/:id: updateDrop, 404 when no row was updated
UpdateDrop(id, updates) ==
    /\ drops' = UpdateDropRows(drops, id, updates)
    /\ LET updated == {d \in drops' : d.id = id}
       IN IF updated = {}
          THEN out' = Resp("updateDrop", NoEmail, 404, MsgDropNotFound)
          ELSE out' = DropResp("updateDrop", CHOOSE d \in updated : TRUE)
    /\ UNCHANGED <<queue, now, nextDropId, settings, mockDrops, arg, mem>>

\* DELETE /api/admin/drops/:id: deleteDrop, 404 when no row was deleted
DeleteDrop(id) ==
    /\ drops' = DeleteDropRows(drops, id)
    /\ IF drops' = drops
       THEN out' = Resp("deleteDrop", NoEmail, 404, MsgDropNotFound)
       ELSE out' = Resp("deleteDrop", NoEmail, 200, MsgDropDeleted)
    /\ UNCHANGED <<queue, now, nextDropId, settings, mockDrops, arg, mem>>

\* GET /api/admin/drops: getAllDrops
ListDrops ==
    /\ \E listing \in getAllDrops(drops) :
         out' = [Resp("drops", NoEmail, 200, MsgOk) EXCEPT !.list = listing]
    /\ UNCHANGED <<queue, now, admin>>

\* GET /api/admin/queue: getAllQueueEntries
AdminQueue ==
    /\ \E listing \in getAllQueueEntries(entries) :
         out' = [Resp("queue", NoEmail, 200, MsgOk) EXCEPT !.list = listing]
    /\ UNCHANGED <<queue, now, admin>>

\* mutant: the route writes the display order back as stored positions
StatsRenumbers ==
    /\ \E listing \in getAllQueueEntries(entries) :
       \E activeDrop \in getActiveDrop(drops) :
         /\ out' = StatsResp(getTotalQueueSize(entries), listing, activeDrop, now)
         /\ entries' = {[listing[i] EXCEPT !.position = TopCount + i] :
                           i \in 1..Len(listing)}
    /\ UNCHANGED <<nextId, reqs, hist, now, admin>>

\* GET /api/queue/stats: getTotalQueueSize, getAllQueueEntries, getActiveDrop
\* and the display arithmetic
Stats ==
    /\ \E listing \in getAllQueueEntries(entries) :
       \E activeDrop \in getActiveDrop(drops) :
         out' = StatsResp(getTotalQueueSize(entries), listing, activeDrop, now)
    /\ UNCHANGED <<queue, now, admin>>

\* res.json(settings)
SettingsResp(row) == [Resp("settings", NoEmail, 200, MsgOk) EXCEPT !.row = row]

\* PUT /api/admin/settings up to its first database answer:
\* insertSettingsSchema.parse, then updateSettings' getSettings
SettingsStart(valid) ==
    /\ CanArrive
    /\ LET r == NewReq("settings", NoEmail)
       IN IF ~valid
          THEN out' = Resp("settings", NoEmail, 400, MsgValidation) /\ UNCHANGED reqs
          ELSE \E existing \in getSettings(settings) :
                 /\ reqs' = reqs (+) SetToBag({[r EXCEPT !.pc = "s_write",
                        !.existingId = IF existing = {} THEN 0
                                       ELSE (CHOOSE e \in existing : TRUE).id]})
                 /\ out' = NoResp
    /\ UNCHANGED <<entries, nextId, hist, now, admin>>

\* updateSettings: the update of the row that was read, or the insert
SettingsWrite(r, newSettings) ==
    /\ r.pc = "s_write"
    /\ IF r.existingId # 0
       THEN /\ settings' = UpdateSettingsRows(settings, r.existingId, newSettings, now)
            /\ Reply(r, SettingsResp({e \in settings' : e.id = r.existingId}))
       ELSE LET created == NewSettings(Cardinality(settings) + 1, newSettings, now)
            IN /\ settings' = settings \cup {created}
               /\ Reply(r, SettingsResp({created}))
    /\ UNCHANGED <<entries, nextId, hist, now, drops, nextDropId, mockDrops, arg, mem>>

\* MemStorage.createDrop(drop)
MemCreateDrop(name, dropTime) ==
    /\ nextDropId <= MaxDrops
    /\ mockDrops' = MemCreateDropRows(mockDrops, nextDropId, name, dropTime, now)
    /\ nextDropId' = nextDropId + 1
    /\ out' = [Resp("memCreateDrop", NoEmail, 200, MsgOk)
                 EXCEPT !.drop = {mockDrops'[Len(mockDrops')]}]
    /\ UNCHANGED <<queue, now, drops, settings, arg, mem>>

\* MemStorage.updateDrop(id, updates)
MemUpdateDrop(id, updates) ==
    /\ mockDrops' = MemUpdateDropRows(mockDrops, id, updates)
    /\ out' = [Resp("memUpdateDrop", NoEmail, 200, MsgOk)
                 EXCEPT !.drop = {d \in Elems(mockDrops') : d.id = id}]
    /\ UNCHANGED <<queue, now, drops, nextDropId, settings, arg, mem>>

\* MemStorage.deleteDrop(id)
MemDeleteDrop(id) ==
    /\ mockDrops' = MemDeleteDropRows(mockDrops, id)
    /\ out' = [Resp("memDeleteDrop", NoEmail, 200, MsgOk)
                 EXCEPT !.status = IF mockDrops' = mockDrops THEN 404 ELSE 200]
    /\ UNCHANGED <<queue, now, drops, nextDropId, settings, arg, mem>>

\* MemStorage.getActiveDrop()
MemActiveDrop ==
    /\ out' = [Resp("memActiveDrop", NoEmail, 200, MsgOk)
                 EXCEPT !.drop = MemGetActiveDrop(mockDrops)]
    /\ UNCHANGED <<queue, now, admin>>

\* time passes, to a later instant
Elapse(t) ==
    /\ t > now
    /\ now' = t
    /\ out' = NoResp
    /\ UNCHANGED <<queue, admin>>

\* time passes
Tick ==
    /\ now < MaxTime
    /\ now' = now + 1
    /\ out' = NoResp
    /\ UNCHANGED <<entries, nextId, reqs, hist>>
    /\ UNCHANGED admin

JoinEmails == Emails \cup {BadEmail}
BoostEmails == Emails \cup {BadEmail, NoEmail}
DeleteIds == 1..MaxJoins
\* the optional fields do not steer any handler: the interleaved
\* specification sends the defaults, the one-at-a-time one all of them
DefaultProfile == <<Null, FALSE>>
DefaultHandle == "h1"

\* requests arrive at any time: handlers interleave between statements
Next ==
    \/ \E email \in JoinEmails : JoinStart(email)
    \/ \E email \in BoostEmails : \E h \in BOOLEAN : BoostStart(email, h)
    \/ \E r \in BagToSet(reqs) : JoinLookup(r)
    \/ \E r \in BagToSet(reqs) : JoinCount(r)
    \/ \E r \in BagToSet(reqs) : JoinInsert(r, DefaultProfile[1], DefaultProfile[2])
    \/ \E r \in BagToSet(reqs) : BoostReread(r)
    \/ \E r \in BagToSet(reqs) : BoostUpdate(r, DefaultHandle)
    \/ \E id \in DeleteIds : DeleteQueueEntry(id)
    \/ Stats

Spec == Init /\ [][Next]_vars

\* a request arrives only when no other request is being handled
SeqJoinStart(email) == AllIdle /\ JoinStart(email)

SeqBoostStart(email, hasHandle) == AllIdle /\ BoostStart(email, hasHandle)

SeqDeleteQueueEntry(id) == AllIdle /\ DeleteQueueEntry(id)

SeqAdminQueue == AllIdle /\ AdminQueue

\* the ids deleteQueueEntry is called with: the rows of this run's joins and
\* the first of the earlier signups
SeqDeleteIds == DeleteIds \cup {FillBase + 1}

NextSeq ==
    \/ \E email \in JoinEmails : SeqJoinStart(email)
    \/ \E email \in BoostEmails : \E h \in BOOLEAN : SeqBoostStart(email, h)
    \/ \E r \in BagToSet(reqs) : JoinLookup(r)
    \/ \E r \in BagToSet(reqs) : JoinCount(r)
    \/ \E r \in BagToSet(reqs) : \E f \in Profiles : JoinInsert(r, f[1], f[2])
    \/ \E r \in BagToSet(reqs) : BoostReread(r)
    \/ \E r \in BagToSet(reqs) : \E h \in Handles : BoostUpdate(r, h)
    \/ \E id \in SeqDeleteIds : SeqDeleteQueueEntry(id)
    \/ SeqAdminQueue
    \/ Tick

SpecSeq == Init /\ [][NextSeq]_vars

\* the fields a drop update may carry
DropUpdates == {[isActive |-> b] : b \in BOOLEAN}
                   \cup {[dropTime |-> t] : t \in DropTimes}
DropIds == 1..MaxDrops

\* the administration of the drops and the display of the queue
NextAdmin ==
    \/ \E name \in DropNames : \E t \in DropTimes \cup {BadTime} : CreateDrop(name, t)
    \/ \E id \in DropIds : \E u \in DropUpdates : UpdateDrop(id, u)
    \/ \E id \in DropIds : DeleteDrop(id)
    \/ ListDrops
    \/ AdminQueue
    \/ Stats
    \/ \E t \in Instants : Elapse(t)

SpecAdmin == Init /\ [][NextAdmin]_vars

\* joins arrive at any time while drops are created and the stats are read
NextDisplay ==
    \/ \E email \in JoinEmails : JoinStart(email)
    \/ \E r \in BagToSet(reqs) : JoinLookup(r)
    \/ \E r \in BagToSet(reqs) : JoinCount(r)
    \/ \E r \in BagToSet(reqs) : JoinInsert(r, DefaultProfile[1], DefaultProfile[2])
    \/ \E name \in DropNames : \E t \in DropTimes \cup {BadTime} : CreateDrop(name, t)
    \/ Stats

SpecDisplay == Init /\ [][NextDisplay]_vars

MemDropIds == DropIds \cup {MockDropId}

\* the drop methods of a MemStorage, called one after another
NextMem ==
    \/ \E t \in DropTimes : MemCreateDrop("drop", t)
    \/ \E id \in MemDropIds : \E u \in DropUpdates : MemUpdateDrop(id, u)
    \/ \E id \in MemDropIds : MemDeleteDrop(id)
    \/ MemActiveDrop
    \/ \E t \in Instants : Elapse(t)

SpecMem == Init /\ [][NextMem]_vars

\* the addresses given to maskEmail: a local part of a's and b's, possibly
\* empty, the separator and a domain
LocalParts == UNION {[1..n -> {"a", "b"}] : n \in 0..MaxLocalLen}
MaskDomains == {<<"x", ".", "c", "o", "m">>, <<"y", ".", "o", "r", "g">>}
MaskInputs == {l \o <<At>> \o d : l \in LocalParts, d \in MaskDomains}

InitMask == InitStores /\ arg \in MaskInputs /\ memQueue = {}

\* maskEmail(arg)
MaskEmail ==
    /\ out = NoResp
    /\ out' = [Resp("mask", NoEmail, 200, MsgOk) EXCEPT !.text = maskEmail(arg)]
    /\ UNCHANGED <<queue, now, admin>>

NextMask == MaskEmail

SpecMask == InitMask /\ [][NextMask]_vars

\* settings requests arrive at any time
NextSettings ==
    \/ \E valid \in BOOLEAN : SettingsStart(valid)
    \/ \E r \in BagToSet(reqs) : \E b \in SettingsBodies : SettingsWrite(r, b)

SpecSettings == Init /\ [][NextSettings]_vars

SeqSettingsStart(valid) == AllIdle /\ SettingsStart(valid)

\* settings requests handled one at a time, as time passes
NextSettingsSeq ==
    \/ \E valid \in BOOLEAN : SeqSettingsStart(valid)
    \/ \E r \in BagToSet(reqs) : \E b \in SettingsBodies : SettingsWrite(r, b)
    \/ Tick

SpecSettingsSeq == Init /\ [][NextSettingsSeq]_vars

\* what a storage method hands back: a row, or undefined / null
StoreResp(kind, email, found) ==
    IF found = {}
    THEN Resp(kind, email, 200, Null)
    ELSE [Resp(kind, email, 200, MsgOk)
            EXCEPT !.row = found,
                   !.position = (CHOOSE e \in found : TRUE).position]

\* DatabaseStorage.createQueueEntry(insertEntry), run to its end
DbCreateQueueEntry(email, phone, notifications) ==
    LET row == NewRow(nextId, email, phone, notifications,
                      NewEntryPosition(CountRows(entries)), now)
    IN IF EmailTaken(getQueueEntryByEmail(entries, email))
       THEN /\ out' = Resp("create", email, 500, MsgDuplicate)
            /\ UNCHANGED <<entries, nextId, hist>>
       ELSE /\ entries' = entries \cup {row}
            /\ nextId' = nextId + 1
            /\ hist' = [i \in DOMAIN hist \cup {row.id} |->
                          IF i = row.id
                          THEN [signup |-> row.position, boosts |-> 0]
                          ELSE hist[i]]
            /\ out' = StoreResp("create", email, {row})

\* MemStorage.createQueueEntry(insertEntry)
MemCreateQueueEntry(email, phone, notifications) ==
    LET row == MemNewRow(memQueue, nextId, email, phone, notifications, now)
    IN IF MemGetQueueEntryByEmail(memQueue, email) # {}
       THEN /\ memOut' = Resp("create", email, 500, MsgDuplicate)
            /\ UNCHANGED memQueue
       ELSE /\ memQueue' = memQueue \cup {row}
            /\ memOut' = StoreResp("create", email, {row})

\* DatabaseStorage.updateQueueEntryInstagram(email, instagramUsername), run
\* to its end
DbUpdateQueueEntryInstagram(email, instagramUsername) ==
    LET found == getQueueEntryByEmail(entries, email)
    IN IF found = {}
       THEN /\ out' = StoreResp("boost", email, {})
            /\ UNCHANGED <<entries, hist>>
       ELSE LET currentEntry == CHOOSE e \in found : TRUE
            IN /\ hist[currentEntry.id].boosts < MaxBoosts
               /\ entries' = UpdateInstagram(entries, email, instagramUsername,
                                   BoostedPosition(currentEntry.position))
               /\ hist' = [hist EXCEPT ![currentEntry.id].boosts = @ + 1]
               /\ out' = StoreResp("boost", email,
                                getQueueEntryByEmail(entries', email))

\* MemStorage.updateQueueEntryInstagram(email, instagramUsername)
MemUpdateQueueEntryInstagram(email, instagramUsername) ==
    /\ memQueue' = MemUpdateInstagram(memQueue, email, instagramUsername)
    /\ memOut' = StoreResp("boost", email,
                           MemGetQueueEntryByEmail(memQueue', email))

\* the same createQueueEntry call on both stores
BothCreateQueueEntry(email, phone, notifications) ==
    /\ ValidEmail(email)
    /\ DbCreateQueueEntry(email, phone, notifications)
    /\ MemCreateQueueEntry(email, phone, notifications)
    /\ UNCHANGED <<now, reqs, drops, nextDropId, settings, mockDrops, arg>>

\* the same updateQueueEntryInstagram call on both stores
BothUpdateQueueEntryInstagram(email, instagramUsername) ==
    /\ ValidEmail(email)
    /\ DbUpdateQueueEntryInstagram(email, instagramUsername)
    /\ MemUpdateQueueEntryInstagram(email, instagramUsername)
    /\ UNCHANGED <<nextId, now, reqs, drops, nextDropId, settings, mockDrops, arg>>

\* the same getQueuePosition call on both stores
BothGetQueuePosition(email) ==
    /\ ValidEmail(email)
    /\ out' = StoreResp("position", email, getQueueEntryByEmail(entries, email))
    /\ memOut' = StoreResp("position", email,
                           MemGetQueueEntryByEmail(memQueue, email))
    /\ UNCHANGED <<queue, now, drops, nextDropId, settings, mockDrops, arg, memQueue>>

\* the same getTotalQueueSize call on both stores
BothGetTotalQueueSize ==
    /\ out' = [Resp("total", NoEmail, 200, MsgOk)
                 EXCEPT !.total = getTotalQueueSize(entries)]
    /\ memOut' = [Resp("total", NoEmail, 200, MsgOk)
                    EXCEPT !.total = MemGetTotalQueueSize(memQueue)]
    /\ UNCHANGED <<queue, now, drops, nextDropId, settings, mockDrops, arg, memQueue>>

\* the two stores side by side: DatabaseStorage from the empty table,
\* MemStorage as its constructor leaves it
InitStoresSideBySide ==
    /\ InitStores
    /\ entries = {}
    /\ arg = <<>>
    /\ memQueue = initializeMockQueue(now)

NextStores ==
    \/ \E email \in Emails :
         BothCreateQueueEntry(email, DefaultProfile[1], DefaultProfile[2])
    \/ \E email \in Emails : BothUpdateQueueEntryInstagram(email, DefaultHandle)
    \/ \E email \in Emails : BothGetQueuePosition(email)
    \/ BothGetTotalQueueSize
    \/ Tick

SpecStores == InitStoresSideBySide /\ [][NextStores]_vars

(* ------------------------------- claims ------------------------------- *)

\* the address is held by a stored row
Stored(email) == \E e \in entries : e.email = email

\* the stored row of an address
RowOf(email) == CHOOSE e \in entries : e.email = email

\* the reported total of the table
Total == Cardinality(entries) + 283

\* C1: handled one at a time, a join with a valid address that is not stored,
\* arriving below capacity, is not rejected at any statement of its handler,
\* and its insert adds exactly one row, at position (rows stored immediately
\* before the insert) + 1 + 283, which is the position it reports.
C1_JoinPosition ==
    [][/\ \A email \in Emails :
            (SeqJoinStart(email) /\ ~Stored(email) /\ Total < 300)
                => out' = NoResp
       /\ \A r \in BagToSet(reqs) :
            (r.kind = "join" /\ ~Stored(r.email) /\ reqs' # reqs /\ out' # NoResp)
                => /\ out'.status = 200
                   /\ out'.email = r.email
                   /\ out'.position = Cardinality(entries) + 1 + 283
                   /\ \E e \in entries' :
                        /\ e \notin entries
                        /\ entries' = entries \cup {e}
                        /\ e.email = r.email
                        /\ e.position = Cardinality(entries) + 1 + 283]_vars

\* C1 witness: from the empty table the second signup was given 285
C1_Witness ==
    /\ out.message = MsgJoined
    /\ out.position = 285
    /\ Cardinality(entries) = 2
    /\ \E e \in entries : e.position = 284

\* C2 as stated: a join whose address is stored always fails with
\* "Email already exists in queue" and leaves the table unchanged.
C2_Original ==
    [][/\ \A email \in Emails :
            (SeqJoinStart(email) /\ Stored(email))
                => (out' = NoResp \/ out'.message = MsgDuplicate)
       /\ \A r \in BagToSet(reqs) :
            (r.kind = "join" /\ Stored(r.email) /\ reqs' # reqs)
                => (out'.message = MsgDuplicate /\ entries' = entries)]_vars

\* C2 amended: a join whose address is stored always fails and leaves the
\* table unchanged; it fails with "Email already exists in queue" when the
\* reported total is below 300 and with "Queue is full" when it is 300 or more.
C2_DuplicateOrFull ==
    [][/\ \A email \in Emails :
            (SeqJoinStart(email) /\ Stored(email))
                => /\ entries' = entries
                   /\ IF Total >= 300
                      THEN out'.message = MsgQueueFull /\ reqs' = reqs
                      ELSE out' = NoResp
       /\ \A r \in BagToSet(reqs) :
            (r.kind = "join" /\ Stored(r.email) /\ reqs' # reqs)
                => /\ out'.message = MsgDuplicate
                   /\ out'.status = 400
                   /\ reqs' = EmptyBag
                   /\ entries' = entries]_vars

\* C2 witness: a join of a stored address was answered with the duplicate error
C2_Witness ==
    /\ out.kind = "join"
    /\ out.message = MsgDuplicate
    /\ Stored(out.email)

\* C3: under every interleaving of requests, no two stored rows hold the
\* same address.
C3_UniqueEmails ==
    \A e1, e2 \in entries : e1.email = e2.email => e1 = e2

\* C3 witness: a join lost the race for its address: its lookup found
\* nothing, and its insert was refused because the address was stored by then
C3_Witness ==
    /\ out.kind = "join"
    /\ out.message = MsgJoinFailed
    /\ Stored(out.email)

\* C4: handled one at a time, a boost of a stored row whose boost-used flag
\* is false is not rejected; its update sets the flag, records the handle,
\* stores max(1, old position - 100), and reports that position and
\* positionsSkipped = old position - new position, which is not negative.
C4_BoostEffect ==
    [][/\ \A email \in Emails :
            (SeqBoostStart(email, TRUE) /\ Stored(email)
                /\ ~RowOf(email).instagramBoostUsed)
                => out' = NoResp /\ reqs' # reqs
       /\ \A r \in BagToSet(reqs) :
            (r.kind = "boost" /\ Stored(r.email) /\ reqs' # reqs)
                => LET old == RowOf(r.email)
                       new == IF old.position - 100 >= 1
                              THEN old.position - 100 ELSE 1
                   IN out' = NoResp
                      \/ /\ out'.status = 200
                         /\ out'.position = new
                         /\ out'.skipped = old.position - new
                         /\ out'.skipped >= 0
                         /\ \E h \in Handles :
                              entries' = (entries \ {old}) \cup
                                {[old EXCEPT !.instagramBoostUsed = TRUE,
                                             !.instagramUsername = h,
                                             !.position = new]}]_vars

\* C4 witness: a row that joined at 284 was boosted to 184, 100 skipped
C4_Witness ==
    /\ out.message = MsgBoosted
    /\ out.skipped = 100
    /\ out.position = 184
    /\ \E e \in entries :
         e.email = out.email /\ e.instagramBoostUsed /\ e.position = 184

\* C5: handled one at a time, a boost of a row that was boosted before fails
\* with "Instagram boost already used for this email" and the row's position,
\* flag and recorded handle stay as they were.
C5_SecondBoostRejected ==
    [][\A email \in Emails :
         (SeqBoostStart(email, TRUE) /\ Stored(email)
             /\ RowOf(email).instagramBoostUsed)
             => /\ out'.message = MsgAlreadyBoosted
                /\ out'.status = 400
                /\ reqs' = EmptyBag
                /\ entries' = entries]_vars

\* C5 witness: the second boost of a boosted row was refused
C5_Witness ==
    /\ out.kind = "boost"
    /\ out.message = MsgAlreadyBoosted
    /\ Stored(out.email)
    /\ hist[RowOf(out.email).id].boosts = 1

\* C6 as stated: under every interleaving of boosts, a row is lowered by at
\* most one boost (never below max(1, position at signup - 100)) and at most
\* one boost request for it succeeds.
C6_OneTimeBoost ==
    \A e \in entries :
        /\ hist[e.id].boosts <= 1
        /\ e.position >= Max(1, hist[e.id].signup - 100)

\* C7: a boost of an address that has no stored row is answered "Email not
\* found in queue" (404); no row is created or changed, also when the row
\* is gone by the time the store is asked to update it.
C7_BoostNotFound ==
    [][/\ \A email \in Emails \cup {BadEmail} :
            (BoostStart(email, TRUE) /\ ~Stored(email))
                => /\ out'.message = MsgNotFound
                   /\ out'.status = 404
                   /\ reqs' = reqs
                   /\ entries' = entries
       /\ \A r \in BagToSet(reqs) :
            (r.kind = "boost" /\ ~Stored(r.email) /\ out'.kind = "boost"
                /\ out'.email = r.email /\ reqs' (+) SetToBag({r}) = reqs)
                => out'.status # 200 /\ entries' = entries]_vars

\* C7 witness: a boost of an address without a row was answered not-found
C7_Witness ==
    /\ out.kind = "boost"
    /\ out.message = MsgNotFound
    /\ ~Stored(out.email)
    /\ entries # {}

\* C8: a successful boost changes one row only, and of that row only the
\* position, the boost-used flag and the recorded handle: every other row,
\* and the row's id, email, phone, notifications and join time, stay.
C8_BoostFrame ==
    [][(out'.message = MsgBoosted /\ reqs' # reqs)
         => \E e \in entries : \E e2 \in entries' :
              /\ e.email = out'.email
              /\ entries' \ {e2} = entries \ {e}
              /\ Cardinality(entries') = Cardinality(entries)
              /\ e2.id = e.id
              /\ e2.email = e.email
              /\ e2.phone = e.phone
              /\ e2.notifications = e.notifications
              /\ e2.joinedAt = e.joinedAt]_vars

\* C8 witness: a row was boosted while other rows, one of them with a
\* phone and a later join time, were stored
C8_Witness ==
    /\ out.message = MsgBoosted
    /\ \E e \in entries :
         e.email # out.email /\ e.phone # Null /\ e.joinedAt > 0
    /\ \E e \in entries : e.email = out.email /\ e.position = 184

\* C9: under every interleaving of joins, boosts and deletions, every stored
\* position is an integer of at least 1.
C9_PositionAtLeastOne ==
    \A e \in entries : e.position \in Int /\ e.position >= 1

\* C9 witness: racing boosts brought a row down to the floor, position 1
C9_Witness ==
    \E e \in entries : e.position = 1 /\ hist[e.id].boosts = 3

\* C10: a validated join that arrives when rows stored + 283 >= 300 is
\* answered "Queue is full" and changes nothing; no join is answered
\* "Queue is full" when rows stored + 283 < 300.
C10_Capacity ==
    [][/\ \A email \in Emails :
            (JoinStart(email) /\ Total >= 300)
                => /\ out'.message = MsgQueueFull
                   /\ out'.status = 400
                   /\ entries' = entries
                   /\ reqs' = reqs
       /\ out'.message = MsgQueueFull => Total >= 300
       /\ \A email \in Emails :
            (JoinStart(email) /\ Total < 300) => out' = NoResp]_vars

\* C10 witness: a join was refused at 17 stored rows, total 300
C10_Witness ==
    /\ out.message = MsgQueueFull
    /\ Cardinality(entries) = 17
    /\ out.email \in Emails

\* C11 as stated: under every interleaving of joins, rows stored + 283 <= 300:
\* at most 17 rows are ever stored.
C11_NeverOverCapacity ==
    Cardinality(entries) + 283 <= 300

\* C12 as stated: the totalSize of a stats response never exceeds 293.
C12_StatsTotalAtMost293 ==
    out.kind = "stats" => out.total <= 293

\* C13 as stated: with the table and the active drop fixed, the totalSize
\* the stats route answers at a time t2 is at least the one it answers at an
\* earlier time t1, for t1 <= t2 not after the drop's scheduled time.
C13_StatsTotalMonotone ==
    \A listing \in getAllQueueEntries(entries) :
    \A activeDrop \in getActiveDrop(drops) :
    \A t1, t2 \in Instants :
        (/\ t1 <= t2
         /\ \A d \in activeDrop : t2 <= d.dropTime)
            => StatsResp(Cardinality(entries) + 283, listing, activeDrop, t1).total
                 <= StatsResp(Cardinality(entries) + 283, listing, activeDrop, t2).total

\* C14: a stats request changes no table: the rows of queue_entries (so
\* every stored position), of drops and of settings are the same after it,
\* with or without simulated growth in its answer.
C14_StatsReadOnly ==
    [][out'.kind = "stats"
         => /\ entries' = entries
            /\ drops' = drops
            /\ settings' = settings]_vars

\* C14 witness: stats were answered with simulated growth, the reported total
\* differing from rows stored + 283, while rows and an active drop are stored
C14_Witness ==
    /\ out.kind = "stats"
    /\ out.total # Cardinality(entries) + 283
    /\ entries # {}
    /\ out.drop # {}
    /\ out.drop \subseteq drops

\* C15: handled one at a time, the first settings update on an empty table
\* creates exactly one row; every later one leaves exactly that one row,
\* with its identifier (and creation time) as before, the fields of the
\* request stored in it and its updated-timestamp set to the current time.
C15_SettingsUpsert ==
    [][\A r \in BagToSet(reqs) :
         (r.kind = "settings" /\ reqs' # reqs)
            => /\ Cardinality(settings) <= 1
               /\ Cardinality(settings') = 1
               /\ out'.row = settings'
               /\ \E b \in SettingsBodies : \A new \in settings' :
                    /\ new.instagramBoostEnabled = b.instagramBoostEnabled
                    /\ "instagramPostUrl" \in DOMAIN b
                          => new.instagramPostUrl = b.instagramPostUrl
                    /\ new.updatedAt = now
                    /\ \A old \in settings :
                         new.id = old.id /\ new.createdAt = old.createdAt]_vars

\* C15 witness: the one settings row was created, and updated at a later
\* time with another url
C15_Witness ==
    /\ out.kind = "settings"
    /\ out.row = settings
    /\ \E e \in settings :
         e.updatedAt > e.createdAt /\ e.instagramPostUrl = "u2" /\ e.id = 1

\* C16 as stated: under every interleaving of settings updates, the settings
\* table holds at most one row.
C16_AtMostOneSettingsRow ==
    Cardinality(settings) <= 1

\* the answer of getActiveDrop a claim expects of a store holding rows
LatestActive(answer, rows) ==
    LET active == {d \in rows : d.isActive}
    IN IF active = {} THEN answer = {}
       ELSE \E d \in active :
              /\ answer = {d}
              /\ \A d2 \in active : d2.createdAt <= d.createdAt

\* C17, DatabaseStorage: the active drop of a stats response is no drop when
\* no stored drop is marked active, and otherwise a drop of the latest
\* creation time among those marked active.
C17_DatabaseActiveDropIsLatest ==
    out.kind = "stats" => LatestActive(out.drop, drops)

\* C17 as stated: getActiveDrop answers no drop when no stored drop is marked
\* active, and otherwise a drop of the latest creation time among those
\* marked active, in DatabaseStorage and in MemStorage.
C17_ActiveDropIsLatest ==
    /\ C17_DatabaseActiveDropIsLatest
    /\ out.kind = "memActiveDrop" => LatestActive(out.drop, Elems(mockDrops))

\* C18: for an address local@domain with a non-empty local part, maskEmail
\* gives the first character of the local part when it has at most 3
\* characters, and its first two characters otherwise, followed by ***@ and
\* the domain as it was.
C18_MaskEmail ==
    out.kind = "mask"
        => \A l \in LocalParts \ {<<>>} : \A d \in MaskDomains :
             arg = l \o <<"@">> \o d
                => out.text = (IF Len(l) <= 3 THEN <<l[1]>> ELSE <<l[1], l[2]>>)
                                 \o <<"*", "*", "*", "@">> \o d

\* C18 witness: aba@x.com was masked to a***@x.com
C18_Witness ==
    /\ arg = <<"a", "b", "a", "@", "x", ".", "c", "o", "m">>
    /\ out.kind = "mask"
    /\ out.text = <<"a", "*", "*", "*", "@", "x", ".", "c", "o", "m">>

\* C19: the listing of getAllQueueEntries holds every stored row exactly
\* once, in ascending order of the positions stored now, boosts included:
\* from the empty table, after a joined (284), b joined (285) and a was
\* boosted (100 skipped), the listing is [a at 184, b at 285].
C19_ListingByPosition ==
    out.kind = "queue"
        => /\ Len(out.list) = Cardinality(entries)
           /\ {out.list[i] : i \in 1..Len(out.list)} = entries
           /\ \A i \in 1..(Len(out.list) - 1) :
                out.list[i].position <= out.list[i + 1].position
           /\ \A a, b \in entries :
                (/\ entries = {a, b}
                 /\ hist[a.id] = [signup |-> 284, boosts |-> 1]
                 /\ hist[b.id] = [signup |-> 285, boosts |-> 0])
                    => /\ out.list = <<a, b>>
                       /\ a.position = 184
                       /\ b.position = 285

\* C19 witness: the listing after a joined, b joined and a was boosted
C19_Witness ==
    /\ out.kind = "queue"
    /\ Len(out.list) = 2
    /\ out.list[1].position = 184 /\ out.list[1].instagramBoostUsed
    /\ hist[out.list[1].id].signup = 284
    /\ out.list[2].position = 285 /\ ~out.list[2].instagramBoostUsed

\* C20 as stated: under every interleaving, a join that is refused because
\* its address is stored is answered 400 "Email already exists in queue",
\* whether the lookup or the unique constraint caught it.
C20_SameDuplicateResponse ==
    [][\A r \in BagToSet(reqs) :
         (/\ r.kind = "join"
          /\ Stored(r.email)
          /\ reqs' (+) SetToBag({r}) = reqs
          /\ out'.kind = "join"
          /\ out'.email = r.email)
            => /\ out'.message = MsgDuplicate
               /\ out'.status = 400]_vars

\* C21: a join stores the position computed from the count it read, however
\* many rows are stored by the time it inserts; so two joins with different
\* addresses that read the same count before either inserts both succeed
\* and store the same position.
C21_PositionFromCountRead ==
    [][\A r \in BagToSet(reqs) :
         (/\ r.pc = "j_insert"
          /\ reqs' (+) SetToBag({r}) = reqs
          /\ out'.status = 200)
            => /\ out'.position = 284 + r.count
               /\ \E e \in entries' \ entries :
                    /\ e.email = r.email
                    /\ e.position = 284 + r.count
               /\ \A e \in entries :
                    (hist[e.id].signup = 284 + r.count /\ hist[e.id].boosts = 0)
                        => \E e2 \in entries' \ entries :
                             e2.email # e.email /\ e2.position = e.position]_vars

\* C21 witness: from the empty table two joins with different addresses both
\* succeeded and both rows are stored at 284
C21_Witness ==
    /\ out.message = MsgJoined
    /\ out.position = 284
    /\ \E e1, e2 \in entries :
         /\ e1.id = 1 /\ e2.id = 2
         /\ e1.email # e2.email
         /\ e1.position = 284 /\ e2.position = 284

\* C22 as stated: at every time and in every state reached by interleaved
\* joins, the totalSize of a stats response is at most 300.
C22_StatsTotalAtMost300 ==
    out.kind = "stats" => out.total <= 300

\* C23 as stated: a stats response adds simulated growth only when there is
\* an active drop scheduled at most 3600 seconds after now, and then
\* totalSize = min(293, rows stored + 283 + floor((3600 - secondsUntilDrop)
\* / 25)); with no active drop, or with the active drop more than 3600
\* seconds away, totalSize = rows stored + 283.  Times are in milliseconds.
C23_GrowthOnlyNearDrop ==
    out.kind = "stats"
        => LET base == Cardinality(entries) + 283
               near == {d \in out.drop : d.dropTime - now <= 3600 * 1000}
           IN IF near = {}
              THEN out.total = base
              ELSE \A d \in near :
                     LET untilDrop == IF d.dropTime - now >= 0
                                      THEN d.dropTime - now ELSE 0
                         grown == base + ((3600 * 1000 - untilDrop) \div (25 * 1000))
                     IN out.total = IF grown <= 293 THEN grown ELSE 293

\* C24: the topEntries of a stats response are the first 15 elements of the
\* 15 mock entries merged with all stored rows (addresses masked), sorted
\* ascending by position: at most 15 elements, each a mock entry or a masked
\* stored row, positions non-decreasing, the k-th of them holding the k-th
\* smallest position of the merge, so that nothing left out is lower.
C24_TopEntries ==
    out.kind = "stats"
        => LET top == out.list
               mock == mockEntries(now)
               Below(p) == Cardinality({i \in 1..15 : i < p})
                             + Cardinality({e \in entries : e.position < p})
               UpTo(p) == Cardinality({i \in 1..15 : i <= p})
                            + Cardinality({e \in entries : e.position <= p})
           IN /\ Len(top) <= 15
              /\ Len(top) = Min(15, 15 + Cardinality(entries))
              /\ \A k \in 1..(Len(top) - 1) : top[k].position <= top[k + 1].position
              /\ \A k \in 1..Len(top) :
                   /\ Below(top[k].position) <= k - 1
                   /\ UpTo(top[k].position) >= k
                   /\ \/ \E i \in 1..15 : top[k] = mock[i] /\ top[k].position = i
                      \/ \E e \in entries :
                           /\ top[k].position = e.position
                           /\ top[k].joinedAt = e.joinedAt
                           /\ top[k].email = maskEmail(EmailText(e.email))

\* C24 witness: a stored row boosted down to position 1 is listed second,
\* masked, behind the mock entry of position 1
C24_Witness ==
    /\ out.kind = "stats"
    /\ Len(out.list) = 15
    /\ out.list[1].email = mockEntries(now)[1].email
    /\ out.list[2].position = 1
    /\ out.list[2].email = <<"u", "*", "*", "*", "@", "x", ".", "c", "o", "m">>
    /\ \E e \in entries : e.position = 1
    /\ out.list[15].position = 14

\* C25: a drop update is partial and local. PUT /api/admin/drops/:id on a
\* stored id changes, on that row only, exactly the fields the update
\* carries, keeps the row's id and creation time and answers the updated
\* row; on an id that is not stored it answers 404 "Drop not found" and
\* leaves the drops table as it was.
C25_UpdateDropPartialLocal ==
    [][\A id \in DropIds : \A u \in DropUpdates :
         UpdateDrop(id, u)
            => IF \E d \in drops : d.id = id
               THEN \E old \in drops : \E new \in drops' :
                      /\ old.id = id
                      /\ new.id = old.id
                      /\ new.createdAt = old.createdAt
                      /\ \A f \in DOMAIN old :
                           new[f] = IF f \in DOMAIN u THEN u[f] ELSE old[f]
                      /\ drops' \ {new} = drops \ {old}
                      /\ out'.status = 200
                      /\ out'.drop = {new}
               ELSE /\ out'.status = 404
                    /\ out'.message = MsgDropNotFound
                    /\ drops' = drops]_vars

\* C25 witness: of two stored drops one was just deactivated by an update,
\* the other is still active
C25_Witness ==
    /\ out.kind = "updateDrop"
    /\ out.status = 200
    /\ Cardinality(drops) = 2
    /\ \E d \in out.drop :
         /\ d \in drops
         /\ ~d.isActive
         /\ \E e \in drops : e.id # d.id /\ e.isActive /\ e.dropTime # d.dropTime

\* C26: every boost answered 200 reports as positionsSkipped the stored
\* position of the entry immediately before that request's update minus
\* the stored position immediately after it, a number between 0 and 100,
\* whatever other requests on the same entry ran in between.
C26_SkippedIsStoredDifference ==
    [][\A r \in BagToSet(reqs) :
         (/\ r.pc = "b_update"
          /\ reqs' (+) SetToBag({r}) = reqs
          /\ out'.status = 200
          /\ out'.email = r.email)
            => \A e \in entries :
                 e.email = r.email
                    => \E e2 \in entries' :
                         /\ e2.id = e.id
                         /\ out'.position = e2.position
                         /\ out'.skipped = e.position - e2.position
                         /\ out'.skipped >= 0
                         /\ out'.skipped <= 100]_vars

\* C27: with requests handled one at a time, every stored row that was not
\* boosted has a position in 284..300 and every boosted row a position in
\* 184..200; every boost answered 200 reports positionsSkipped = 100, and
\* the floor of max(1, ...) is never the value stored.
C27_SequentialPositionRanges ==
    /\ \A e \in entries :
         /\ ~e.instagramBoostUsed => (e.position >= 284 /\ e.position <= 300)
         /\ e.instagramBoostUsed => (e.position >= 184 /\ e.position <= 200)
         /\ e.position # 1
    /\ (out.kind = "boost" /\ out.status = 200) => out.skipped = 100

\* C27 witness: the join that took the last place, 300, was boosted to 200
\* and the response reports 100 positions skipped
C27_Witness ==
    /\ out.kind = "boost"
    /\ out.status = 200
    /\ out.skipped = 100
    /\ out.position = 200
    /\ \E e \in entries :
         e.email = out.email /\ e.instagramBoostUsed /\ e.position = 200
    /\ \E e \in entries : ~e.instagramBoostUsed /\ e.position = 299

\* no row was deleted so far: every id handed out is still stored and the
\* earlier signups are all there or were never there
NothingDeleted ==
    /\ \A i \in 1..(nextId - 1) : \E e \in entries : e.id = i
    /\ Cardinality({e \in entries : e.id > FillBase}) \in {0, BaseFill}

\* C28: with requests handled one at a time and no row deleted, the stored
\* rows have pairwise distinct positions after any sequence of joins and
\* boosts. (Once deleteQueueEntry runs, a later join can be given a position
\* another stored row holds: the witness.)
C28_DistinctPositionsWithoutDelete ==
    NothingDeleted
        => \A e1 \in entries : \A e2 \in entries :
             e1.id # e2.id => e1.position # e2.position

\* C28 witness: after a delete, a join was answered with a position that
\* another stored row holds as well
C28_Witness ==
    /\ ~NothingDeleted
    /\ out.kind = "join"
    /\ out.status = 200
    /\ \E e1 \in entries : \E e2 \in entries :
         /\ e1.email = out.email
         /\ e1.position = out.position
         /\ e2.id # e1.id
         /\ e2.position = e1.position

\* C29: the flag and the position of a stored row move one way only. In
\* every step, a row that is still stored afterwards keeps a boost-used
\* flag that was true, and its position is not higher than before.
C29_FlagAndPositionMonotone ==
    [][\A e \in entries : \A e2 \in entries' :
         e2.id = e.id
            => /\ e.instagramBoostUsed => e2.instagramBoostUsed
               /\ e2.position <= e.position]_vars

====
